---- MODULE Spec2Model ----
(***************************************************************************)
(* A model of src/rpc/virnetmessage.c: the RPC message record, its frame   *)
(* and payload codec, descriptor attachment, the transmit queue and error  *)
(* capture.  Buffers are sequences of bytes; C offset o is index o + 1.    *)
(***************************************************************************)
EXTENDS Integers, Sequences, FiniteSets, TLC

(***************************************************************************)
(* Sizes.  VIR_NET_MESSAGE_LEN_MAX and VIR_NET_MESSAGE_HEADER_XDR_LEN are  *)
(* the program's values; VIR_NET_MESSAGE_INITIAL, VIR_NET_MESSAGE_MAX and  *)
(* VIR_NET_MESSAGE_NUM_FDS_MAX are scaled down so that growth, the cap and *)
(* the descriptor limit are all reached with short buffers.                *)
(***************************************************************************)
VIR_NET_MESSAGE_LEN_MAX == 4

VIR_NET_MESSAGE_HEADER_XDR_LEN == 4

VIR_NET_MESSAGE_INITIAL == 28

VIR_NET_MESSAGE_MAX == 120

VIR_NET_MESSAGE_NUM_FDS_MAX == 2

\* How many descriptors the caller attaches at most (one above the limit).
MaxAddFD == 3

\* How many messages the queue owner has at hand.
NumMsgs == 3

\* A byte of the allocation that nothing has written yet.
Uninit == -1

\* The values an unwritten or out-of-allocation byte is read as.
GarbageBytes == {0, 1, 255}

NULL == 0

Min(a, b) == IF a < b THEN a ELSE b

(***************************************************************************)
(* XDR primitives (RFC 4506) as used through xdrmem streams.               *)
(***************************************************************************)
\* A 32-bit word is held as the C int with the same bits: a signed value is
\* itself, an unsigned value v is itself below 2^31 and v - 2^32 from there up.

\* xdr_u_int / xdr_int / xdr_enum, XDR_ENCODE: four bytes, most significant
\* first, two's complement.
BE32(n) ==
  << (n \div 16777216) % 256, (n \div 65536) % 256, (n \div 256) % 256, n % 256 >>

\* xdr_u_int / xdr_int / xdr_enum, XDR_DECODE.
FromBE32(b) ==
  (((IF b[1] >= 128 THEN b[1] - 256 ELSE b[1]) * 256 + b[2]) * 256 + b[3]) * 256 + b[4]

\* Unsigned comparisons of a word with a limit below 2^31.
ULess(w, limit) == w >= 0 /\ w < limit

UGreater(w, limit) == w < 0 \/ w > limit

\* The bytes of a sequence of words.
RECURSIVE WordsToBytes(_)
WordsToBytes(ws) ==
  IF ws = << >> THEN << >> ELSE BE32(Head(ws)) \o WordsToBytes(Tail(ws))

\* The words of a byte sequence whose length is a multiple of four.
BytesToWords(bs) ==
  [i \in 1..(Len(bs) \div 4) |-> FromBE32(SubSeq(bs, 4 * i - 3, 4 * i))]

\* An xdrmem stream refuses a word when fewer than four bytes are left, so of
\* the words a filter puts, exactly those that fit are written.
PutWords(ws, room) ==
  LET fit == Min(Len(ws), room \div 4)
  IN  [ok |-> fit = Len(ws), bytes |-> WordsToBytes(SubSeq(ws, 1, fit)), pos |-> 4 * fit]

(***************************************************************************)
(* The buffer.                                                             *)
(***************************************************************************)
\* A reallocation that hands back a fresh block without the old content.
ReallocFresh(buf, n) == [i \in 1..n |-> Uninit]

\* VIR_REALLOC_N: the old content is kept up to the new size, new bytes are
\* not initialised.
Realloc(buf, n) == [i \in 1..n |-> IF i <= Len(buf) THEN buf[i] ELSE Uninit]

\* Store bytes at C offset off (the caller has checked that they fit).
WriteAt(buf, off, bytes) ==
  [i \in 1..Len(buf) |->
     IF i > off /\ i <= off + Len(bytes) THEN bytes[i - off] ELSE buf[i]]

\* What reading the byte at C offset off can give: the byte stored there, or
\* anything when it was never written or lies outside the allocation.
ByteAt(buf, off) ==
  IF off + 1 <= Len(buf) /\ buf[off + 1] # Uninit THEN {buf[off + 1]} ELSE GarbageBytes

\* The four-byte sequences a word read at C offset off can see.
WordAt(buf, off) ==
  { <<a, b, c, d>> : a \in ByteAt(buf, off), b \in ByteAt(buf, off + 1),
                     c \in ByteAt(buf, off + 2), d \in ByteAt(buf, off + 3) }

\* The window [off, off + n) of the allocation, as stored.
Window(buf, off, n) == SubSeq(buf, off + 1, off + n)

(***************************************************************************)
(* The message header and its marshaller, xdr_virNetMessageHeader: six     *)
(* words in the order prog, vers, proc, type, serial, status.              *)
(***************************************************************************)
HeaderFields == <<"prog", "vers", "proc", "type", "serial", "status">>

ZeroHeader ==
  [prog |-> 0, vers |-> 0, proc |-> 0, type |-> 0, serial |-> 0, status |-> 0]

HeaderWords(h) == <<h.prog, h.vers, h.proc, h.type, h.serial, h.status>>

\* XDR_DECODE of the header from the bytes given: the fields are stored one by
\* one, and the first word that is not there makes the marshaller fail with
\* the earlier fields already stored.
DecodeHeaderFields(h, bytes) ==
  LET fit == Min(Len(HeaderFields), Len(bytes) \div 4)
      ws  == BytesToWords(bytes)
  IN  [ok  |-> fit = Len(HeaderFields),
       hdr |-> [f \in DOMAIN h |->
                  LET k == CHOOSE j \in 1..Len(HeaderFields) : HeaderFields[j] = f
                  IN  IF k <= fit THEN ws[k] ELSE h[f]],
       pos |-> 4 * fit]

\* The headers a caller fills in.
Headers ==
  { [prog |-> 536903814, vers |-> 1, proc |-> 1, type |-> 0, serial |-> 1, status |-> 0],
    [prog |-> 2147483647, vers |-> 258, proc |-> -2, type |-> 3, serial |-> 65536,
     status |-> 1] }

(***************************************************************************)
(* Payload marshallers (the xdrproc_t filter argument).  "uint_array" is a *)
(* counted array of unsigned words, "xdr_void" puts nothing and succeeds,  *)
(* "fail" refuses every value.                                             *)
(***************************************************************************)
Filters == {"uint_array", "xdr_void", "fail"}

ArrayWords(v) == <<Len(v)>> \o v

\* (*filter)(&xdr, data) on an XDR_ENCODE stream with room bytes left.
FilterEncode(filter, data, room) ==
  CASE filter = "uint_array" -> PutWords(ArrayWords(data), room)
    [] filter = "xdr_void"   -> [ok |-> TRUE, bytes |-> << >>, pos |-> 0]
    [] OTHER                 -> [ok |-> FALSE, bytes |-> << >>, pos |-> 0]

\* (*filter)(&xdr, data) on an XDR_DECODE stream over the bytes given.
FilterDecode(filter, bytes) ==
  CASE filter = "uint_array" ->
         IF Len(bytes) < 4
         THEN [ok |-> FALSE, value |-> << >>, pos |-> 0]
         ELSE LET ws   == BytesToWords(bytes)
                  n    == ws[1]
                  have == IF ULess(n, Len(ws)) THEN n ELSE Len(ws) - 1
              IN  [ok    |-> ULess(n, Len(ws)),
                   value |-> SubSeq(ws, 2, 1 + have),
                   pos   |-> 4 * (1 + have)]
    [] filter = "xdr_void" -> [ok |-> TRUE, value |-> << >>, pos |-> 0]
    [] OTHER               -> [ok |-> FALSE, value |-> << >>, pos |-> 0]

\* The encoded size of the header.
HeaderLen == 4 * Len(HeaderFields)

\* The array values a caller marshals: sizes around each capacity the buffer
\* passes through, elements that exercise every byte of a word.
ArraySizes ==
  {0, 2, 8,
   (VIR_NET_MESSAGE_MAX - HeaderLen) \div 4 - 1,
   (VIR_NET_MESSAGE_MAX - HeaderLen) \div 4}

ArrayBases == {16909060}

ArrayValues == { [i \in 1..n |-> b + 255 * i] : n \in ArraySizes, b \in ArrayBases }

TypedArgs ==
  { [filter |-> "uint_array", data |-> v] : v \in ArrayValues }
  \cup { [filter |-> f, data |-> << >>] : f \in {"xdr_void", "fail"} }

\* The (data, len) pairs given to the raw encoder; null stands for data = NULL.
RawLens ==
  {0, 1,
   VIR_NET_MESSAGE_MAX - HeaderLen - 4, VIR_NET_MESSAGE_MAX - HeaderLen - 3,
   VIR_NET_MESSAGE_MAX - HeaderLen, VIR_NET_MESSAGE_MAX - HeaderLen + 1,
   VIR_NET_MESSAGE_MAX, VIR_NET_MESSAGE_MAX + 1}

RawBytes(n) == [i \in 1..n |-> (170 + i) % 256]

RawArgs ==
  { [null |-> FALSE, bytes |-> RawBytes(n), len |-> n] : n \in RawLens }
  \cup { [null |-> TRUE, bytes |-> << >>, len |-> 5] }

(***************************************************************************)
(* State.                                                                  *)
(***************************************************************************)
VARIABLES
  \* struct virNetMessage, the record the codec works on
  tracked, buffer, bufferLength, bufferOffset, header, fds, nfds, donefds, cb, opaque,
  \* where the caller stands in the documented call order, the last call and
  \* its return value, and the arguments of the payload call
  phase, op, call,
  \* destructor invocations of this message, the callback the caller last set,
  \* and whether the record was cleared since
  cbCalls, cbWanted, clearedSinceSet,
  \* descriptors this process holds open through the message code
  openFds,
  \* the frame the I/O loop carries, with what was encoded into it
  wire,
  \* the frame the I/O loop has for the reader, and the out-value of the
  \* payload decoder
  input, decoded,
  \* the transmit queue: its head, every message's next link, and the log of
  \* pushes and serves
  queue, next, pushed, served,
  \* descriptors the I/O loop took over, duplicates virNetMessageDupFD gave to
  \* the caller, and descriptors the message closed without owning them
  handed, dupOut, misclosed,
  \* struct virNetMessageError as the caller holds it, the thread-local error
  \* object, and what the first virNetMessageSaveError stored
  rerr, lastError, firstSaved

msgVars == <<tracked, buffer, bufferLength, bufferOffset, header, fds, nfds, donefds,
             cb, opaque>>

bufVars == <<buffer, bufferLength, bufferOffset>>

fdVars == <<fds, nfds, donefds, openFds, handed, dupOut, misclosed>>

cbVars == <<cb, opaque, cbCalls, cbWanted, clearedSinceSet>>

ioVars == <<wire, input, decoded>>

queueVars == <<queue, next, pushed, served>>

errVars == <<rerr, lastError, firstSaved>>

vars == <<tracked, buffer, bufferLength, bufferOffset, header, fds, nfds, donefds, cb,
          opaque, phase, op, call, cbCalls, cbWanted, clearedSinceSet, openFds, wire,
          input, decoded, queue, next, pushed, served, handed, dupOut, misclosed,
          rerr, lastError, firstSaved>>

Msgs == 1..NumMsgs

\* The message whose record the model holds in full; of the others only the
\* next link matters.
Self == 1

\* Error codes, domain and level that virNetMessageSaveError names.
VIR_ERR_OK == 0

VIR_ERR_INTERNAL_ERROR == 1

VIR_FROM_RPC == 7

VIR_ERR_ERROR == 2

\* struct virNetMessageError, all zero.  An optional string is << >> when
\* absent and <<s>> when it points to the string s.
ZeroError ==
  [code |-> VIR_ERR_OK, domain |-> 0, message |-> << >>, level |-> 0, dom |-> << >>,
   str1 |-> << >>, str2 |-> << >>, str3 |-> << >>, int1 |-> 0, int2 |-> 0, net |-> << >>]

NoCall == [filter |-> "none", data |-> << >>, withFDs |-> FALSE, numFDs |-> 0]

NoWire == [frame |-> << >>, hdr |-> ZeroHeader, call |-> NoCall]

NoInput == [frame |-> << >>, fromWire |-> FALSE]

Callbacks == {1}

Cookies == {2}

\* The descriptors the operating system hands out to dup().
FdIds == 3..(3 + MaxAddFD)

\* virNetMessageNew: g_new0 zeroes the record, then the flag is stored.
NewRecord(t) ==
  /\ tracked = t
  /\ buffer = << >>
  /\ bufferLength = 0
  /\ bufferOffset = 0
  /\ header = ZeroHeader
  /\ fds = << >>
  /\ nfds = 0
  /\ donefds = 0
  /\ cb = NULL
  /\ opaque = NULL

Init ==
  /\ \E t \in BOOLEAN : NewRecord(t)
  /\ phase = "idle"
  /\ op = [name |-> "New", ret |-> 0]
  /\ call = NoCall
  /\ cbCalls = << >>
  /\ cbWanted = << >>
  /\ clearedSinceSet = FALSE
  /\ openFds = {}
  /\ wire = NoWire
  /\ input = NoInput
  /\ decoded = << >>
  /\ queue = NULL
  /\ next = [m \in Msgs |-> NULL]
  /\ pushed = << >>
  /\ served = << >>
  /\ handed = {}
  /\ dupOut = {}
  /\ misclosed = {}
  /\ rerr = ZeroError
  /\ lastError = << >>
  /\ firstSaved = << >>

\* Phases in which no call on the message is running and it is not freed.
Callable == phase \notin {"encoding", "freed"}

(***************************************************************************)
(* 4.1 Message record lifecycle.                                           *)
(***************************************************************************)
virNetMessageNew ==
  /\ phase = "freed"
  /\ \E t \in BOOLEAN :
       /\ tracked' = t
       /\ buffer' = << >>
       /\ bufferLength' = 0
       /\ bufferOffset' = 0
       /\ header' = ZeroHeader
       /\ fds' = << >>
       /\ nfds' = 0
       /\ donefds' = 0
       /\ cb' = NULL
       /\ opaque' = NULL
  /\ phase' = "idle"
  /\ op' = [name |-> "New", ret |-> 0]
  /\ call' = NoCall
  /\ cbCalls' = << >>
  /\ cbWanted' = << >>
  /\ clearedSinceSet' = FALSE
  /\ decoded' = << >>
  /\ input' = NoInput
  /\ wire' = NoWire
  /\ handed' = {}
  /\ dupOut' = {}
  /\ UNCHANGED <<openFds, misclosed, queueVars, errVars>>

\* The caller fills in the header of a message it is about to encode.
SetHeader ==
  /\ phase = "idle"
  /\ wire = NoWire
  /\ \E h \in Headers : header' = h
  /\ header' # header
  /\ op' = [name |-> "SetHeader", ret |-> 0]
  /\ UNCHANGED <<tracked, bufVars, fdVars, cbVars, phase, call, ioVars, queueVars,
                 errVars>>

\* The caller stores a destructor callback and its cookie in the record.
SetCallback ==
  /\ phase = "idle"
  /\ cb = NULL
  /\ \E c \in Callbacks, o \in Cookies :
       /\ cb' = c
       /\ opaque' = o
       /\ cbWanted' = <<[cb |-> c, opaque |-> o]>>
  /\ clearedSinceSet' = FALSE
  /\ op' = [name |-> "SetCallback", ret |-> 0]
  /\ UNCHANGED <<tracked, bufVars, header, fdVars, cbCalls, phase, call, ioVars,
                 queueVars, errVars>>

\* The loop stopping one slot short.
ClosedByShort(slots, n) == { slots[i] : i \in { j \in 1..(n - 1) : slots[j] >= 0 } }

\* VIR_FORCE_CLOSE over the slots: a slot below zero is left alone.
ClosedBy(slots, n) == { slots[i] : i \in { j \in 1..n : slots[j] >= 0 } }

\* Of the descriptors such a pass closes, those the message does not hold open:
\* closed before, or taken over by the I/O loop or the caller.
Misclosed(slots, n, open) == ClosedBy(slots, n) \ open

virNetMessageClearFDs ==
  /\ Callable
  /\ openFds' = openFds \ ClosedBy(fds, nfds)
  /\ donefds' = 0
  /\ nfds' = 0
  /\ fds' = << >>
  /\ misclosed' = misclosed \cup Misclosed(fds, nfds, openFds)
  /\ op' = [name |-> "ClearFDs", ret |-> 0]
  /\ UNCHANGED <<tracked, bufVars, header, handed, dupOut, cbVars, phase, call, ioVars,
                 queueVars, errVars>>

virNetMessageClearPayload ==
  /\ Callable
  /\ openFds' = openFds \ ClosedBy(fds, nfds)
  /\ donefds' = 0
  /\ nfds' = 0
  /\ fds' = << >>
  /\ bufferOffset' = 0
  /\ bufferLength' = 0
  /\ buffer' = << >>
  /\ phase' = "idle"
  /\ op' = [name |-> "ClearPayload", ret |-> 0]
  /\ call' = NoCall
  /\ input' = NoInput
  /\ decoded' = << >>
  /\ misclosed' = misclosed \cup Misclosed(fds, nfds, openFds)
  /\ UNCHANGED <<tracked, header, handed, dupOut, cbVars, wire, queueVars, errVars>>

\* The record restored without its tracked flag.
ClearResultUntracked(t) ==
  [tracked |-> FALSE, header |-> ZeroHeader, cb |-> NULL, opaque |-> NULL, next |-> NULL]

\* memset(msg, 0, sizeof(*msg)) and the tracked flag put back: the fields of
\* the record that virNetMessageClearPayload has not already reset.
ClearResult(t) ==
  [tracked |-> t, header |-> ZeroHeader, cb |-> NULL, opaque |-> NULL, next |-> NULL]

virNetMessageClear ==
  /\ Callable
  /\ openFds' = openFds \ ClosedBy(fds, nfds)
  /\ donefds' = 0
  /\ nfds' = 0
  /\ fds' = << >>
  /\ bufferOffset' = 0
  /\ bufferLength' = 0
  /\ buffer' = << >>
  /\ header' = ClearResult(tracked).header
  /\ cb' = ClearResult(tracked).cb
  /\ opaque' = ClearResult(tracked).opaque
  /\ tracked' = ClearResult(tracked).tracked
  /\ next' = [next EXCEPT ![Self] = ClearResult(tracked).next]
  /\ clearedSinceSet' = (cbWanted # << >>)
  /\ phase' = "idle"
  /\ op' = [name |-> "Clear", ret |-> 0]
  /\ call' = NoCall
  /\ input' = NoInput
  /\ decoded' = << >>
  /\ misclosed' = misclosed \cup Misclosed(fds, nfds, openFds)
  /\ UNCHANGED <<cbCalls, cbWanted, handed, dupOut, wire, queue, pushed, served, errVars>>

\* The callback called without its cookie.
FreeCallbacksNoCookie(c, o, n, open) ==
  IF c # NULL THEN <<[cb |-> c, opaque |-> NULL, nfds |-> n, open |-> open]>> ELSE << >>

\* if (msg->cb) msg->cb(msg, msg->opaque): the calls virNetMessageFree makes,
\* each with the callback, its argument, and the descriptors the message still
\* holds at that moment.
FreeCallbacks(c, o, n, open) ==
  IF c # NULL THEN <<[cb |-> c, opaque |-> o, nfds |-> n, open |-> open]>> ELSE << >>

virNetMessageFree ==
  /\ Callable
  /\ cbCalls' = cbCalls \o FreeCallbacks(cb, opaque, nfds, openFds)
  /\ openFds' = openFds \ ClosedBy(fds, nfds)
  /\ donefds' = 0
  /\ nfds' = 0
  /\ fds' = << >>
  /\ bufferOffset' = 0
  /\ bufferLength' = 0
  /\ buffer' = << >>
  /\ phase' = "freed"
  /\ op' = [name |-> "Free", ret |-> 0]
  /\ call' = NoCall
  /\ input' = NoInput
  /\ decoded' = << >>
  /\ misclosed' = misclosed \cup Misclosed(fds, nfds, openFds)
  /\ UNCHANGED <<tracked, header, cb, opaque, cbWanted, clearedSinceSet, handed, dupOut,
                 wire, queueVars, errVars>>

\* virNetMessageFree(NULL): nothing is done.
virNetMessageFreeNull ==
  /\ phase # "encoding"
  /\ op.name # "FreeNull"
  /\ op' = [name |-> "FreeNull", ret |-> 0]
  /\ UNCHANGED <<msgVars, phase, call, cbCalls, cbWanted, clearedSinceSet, openFds,
                 handed, dupOut, misclosed, ioVars, queueVars, errVars>>

(***************************************************************************)
(* 4.2 / 4.3 Encoding.                                                     *)
(***************************************************************************)
\* The header written into whatever buffer the record already holds, a new one
\* being allocated only when there is none.
EncodeHeaderKeepsBuffer(buf, h) ==
  LET len0 == IF buf = << >> THEN VIR_NET_MESSAGE_INITIAL + VIR_NET_MESSAGE_LEN_MAX
              ELSE Len(buf)
      buf0 == Realloc(buf, len0)
      r    == PutWords(<<0>> \o HeaderWords(h), len0)
      len  == r.pos
  IN  IF r.ok
      THEN [buffer |-> WriteAt(WriteAt(buf0, 0, r.bytes), 0, BE32(len)),
            bufferLength |-> len0, bufferOffset |-> len, ret |-> 0]
      ELSE [buffer |-> WriteAt(buf0, 0, r.bytes),
            bufferLength |-> len0, bufferOffset |-> 0, ret |-> -1]

\* The result of virNetMessageEncodeHeader on a record with buffer buf and
\* header h: the buffer, both cursors and the return value.
EncodeHeaderResult(buf, h) ==
  LET len0 == VIR_NET_MESSAGE_INITIAL + VIR_NET_MESSAGE_LEN_MAX
      buf0 == Realloc(buf, len0)
      r    == PutWords(<<0>> \o HeaderWords(h), len0)
      len  == r.pos
  IN  IF r.ok
      THEN [buffer |-> WriteAt(WriteAt(buf0, 0, r.bytes), 0, BE32(len)),
            bufferLength |-> len0, bufferOffset |-> len, ret |-> 0]
      ELSE [buffer |-> WriteAt(buf0, 0, r.bytes),
            bufferLength |-> len0, bufferOffset |-> 0, ret |-> -1]

virNetMessageEncodeHeader ==
  /\ phase = "idle"
  /\ header \in Headers \cup {ZeroHeader}
  /\ wire = NoWire
  /\ LET r == EncodeHeaderResult(buffer, header)
     IN  /\ buffer' = r.buffer
         /\ bufferLength' = r.bufferLength
         /\ bufferOffset' = r.bufferOffset
         /\ phase' = IF r.ret = 0 THEN "hdr" ELSE "failed"
         /\ op' = [name |-> "EncodeHeader", ret |-> r.ret]
  /\ call' = NoCall
  /\ UNCHANGED <<tracked, header, fdVars, cbVars, ioVars, queueVars, errVars>>

\* Where a record stands when it has been used for a frame, written or read,
\* and not cleared since.
UsedPhases == {"encoded", "failed", "body", "dhdr", "dpayload"}

\* virNetMessageEncodeHeader called on a record that still holds the buffer
\* and the cursors of the frame it was last used for.
EncodeHeaderReused ==
  /\ phase \in UsedPhases
  /\ LET r == EncodeHeaderResult(buffer, header)
     IN  /\ buffer' = r.buffer
         /\ bufferLength' = r.bufferLength
         /\ bufferOffset' = r.bufferOffset
         /\ phase' = IF r.ret = 0 THEN "hdr" ELSE "failed"
         /\ op' = [name |-> "EncodeHeader", ret |-> r.ret]
  /\ call' = NoCall
  /\ UNCHANGED <<tracked, header, fdVars, cbVars, ioVars, queueVars, errVars>>

\* The count written without moving the offset past it.
EncodeNumFDsNoAdvance(buf, length, offset, n) ==
  LET numFDs == n
      r      == PutWords(<<numFDs>>, length - offset)
  IN  IF numFDs > VIR_NET_MESSAGE_NUM_FDS_MAX \/ ~r.ok
      THEN [buffer |-> buf, bufferOffset |-> offset, ret |-> -1]
      ELSE [buffer |-> WriteAt(buf, offset, r.bytes), bufferOffset |-> offset, ret |-> 0]

\* The result of virNetMessageEncodeNumFDs.
EncodeNumFDsResult(buf, length, offset, n) ==
  LET numFDs == n
      r      == PutWords(<<numFDs>>, length - offset)
  IN  IF numFDs > VIR_NET_MESSAGE_NUM_FDS_MAX \/ ~r.ok
      THEN [buffer |-> buf, bufferOffset |-> offset, ret |-> -1]
      ELSE [buffer |-> WriteAt(buf, offset, r.bytes),
            bufferOffset |-> offset + r.pos, ret |-> 0]

virNetMessageEncodeNumFDs ==
  /\ phase = "hdr"
  /\ LET r == EncodeNumFDsResult(buffer, bufferLength, bufferOffset, nfds)
     IN  /\ buffer' = r.buffer
         /\ bufferOffset' = r.bufferOffset
         /\ phase' = IF r.ret = 0 THEN "nfds" ELSE "failed"
         /\ op' = [name |-> "EncodeNumFDs", ret |-> r.ret]
  /\ call' = [call EXCEPT !.numFDs = nfds]
  /\ UNCHANGED <<tracked, bufferLength, header, fdVars, cbVars, ioVars, queueVars, errVars>>

\* The length word left as virNetMessageEncodeHeader wrote it.
EncodeLengthWordStale(buf, msglen) == [ok |-> TRUE, buffer |-> buf]

\* Re-encode the length word: a stream of VIR_NET_MESSAGE_HEADER_XDR_LEN bytes
\* over the start of the buffer takes the word msglen.
EncodeLengthWord(buf, msglen) ==
  LET r == PutWords(<<msglen>>, VIR_NET_MESSAGE_HEADER_XDR_LEN)
  IN  [ok |-> r.ok, buffer |-> WriteAt(buf, 0, r.bytes)]

\* One evaluation of the filter on the stream over buffer + bufferOffset.
PayloadAttempt == FilterEncode(call.filter, call.data, bufferLength - bufferOffset)

\* The doubling written without its parentheses.
GrownLenPrecedence(length) == length - VIR_NET_MESSAGE_LEN_MAX * 2

\* unsigned int newlen = (bufferLength - LEN_MAX) * 2
GrownLen(length) == (length - VIR_NET_MESSAGE_LEN_MAX) * 2

\* virNetMessageEncodePayload is entered: the stream is created over the
\* space left after bufferOffset.
virNetMessageEncodePayload ==
  /\ phase \in {"hdr", "nfds"}
  /\ \E a \in TypedArgs :
       call' = [filter |-> a.filter, data |-> a.data, withFDs |-> (phase = "nfds"),
                numFDs |-> call.numFDs]
  /\ phase' = "encoding"
  /\ op' = [name |-> "EncodePayload", ret |-> 1]
  /\ UNCHANGED <<msgVars, cbCalls, cbWanted, clearedSinceSet, openFds, handed, dupOut,
                 misclosed, ioVars, queueVars, errVars>>

\* The filter failed and the doubled capacity is within the cap: the buffer is
\* reallocated and the stream recreated at the same offset.
EncodePayloadGrow ==
  /\ phase = "encoding"
  /\ \E attempt \in {PayloadAttempt} :
       /\ ~attempt.ok
       /\ GrownLen(bufferLength) <= VIR_NET_MESSAGE_MAX
       /\ bufferLength' = GrownLen(bufferLength) + VIR_NET_MESSAGE_LEN_MAX
       /\ buffer' = Realloc(WriteAt(buffer, bufferOffset, attempt.bytes), bufferLength')
  /\ op' = [name |-> "EncodePayloadGrow", ret |-> 1]
  /\ UNCHANGED <<tracked, bufferOffset, header, fdVars, cbVars, phase, call, ioVars,
                 queueVars, errVars>>

\* The filter failed and doubling would pass the cap: return -1.
EncodePayloadError ==
  /\ phase = "encoding"
  /\ \E attempt \in {PayloadAttempt} :
       /\ ~attempt.ok
       /\ GrownLen(bufferLength) > VIR_NET_MESSAGE_MAX
       /\ buffer' = WriteAt(buffer, bufferOffset, attempt.bytes)
  /\ phase' = "failed"
  /\ op' = [name |-> "EncodePayload", ret |-> -1]
  /\ UNCHANGED <<tracked, bufferLength, bufferOffset, header, fdVars, cbVars, call,
                 ioVars, queueVars, errVars>>

\* The filter succeeded: advance the offset, re-encode the length word and
\* turn the cursors round for transmission.
EncodePayloadDone ==
  /\ phase = "encoding"
  /\ \E attempt \in {PayloadAttempt} :
       /\ attempt.ok
       /\ \E off \in {bufferOffset + attempt.pos} :
            \E w \in {EncodeLengthWord(WriteAt(buffer, bufferOffset, attempt.bytes), off)} :
              /\ buffer' = w.buffer
              /\ bufferLength' = IF w.ok THEN off ELSE bufferLength
              /\ bufferOffset' = IF w.ok THEN 0 ELSE off
              /\ phase' = IF w.ok THEN "encoded" ELSE "failed"
              /\ op' = [name |-> "EncodePayload", ret |-> IF w.ok THEN 0 ELSE -1]
  /\ UNCHANGED <<tracked, header, fdVars, cbVars, call, ioVars, queueVars, errVars>>

\* The cap test written with >= instead of >.
EncodePayloadRawOffByOne(buf, length, offset, a) ==
  LET copy    == ~a.null /\ a.len > 0
      short   == copy /\ (length - offset) < a.len
      toolong == short /\ (offset + a.len) >= (VIR_NET_MESSAGE_MAX + VIR_NET_MESSAGE_LEN_MAX)
      length1 == IF short THEN offset + a.len ELSE length
      buf1    == IF short THEN Realloc(buf, length1) ELSE buf
      buf2    == IF copy THEN WriteAt(buf1, offset, a.bytes) ELSE buf1
      off2    == IF copy THEN offset + a.len ELSE offset
      w       == EncodeLengthWord(buf2, off2)
  IN  IF toolong
      THEN [buffer |-> buf, bufferLength |-> length, bufferOffset |-> offset, ret |-> -1]
      ELSE [buffer |-> w.buffer, bufferLength |-> off2, bufferOffset |-> 0, ret |-> 0]

\* The cap test left out: the buffer grows to whatever the payload needs.
EncodePayloadRawNoCap(buf, length, offset, a) ==
  LET copy    == ~a.null /\ a.len > 0
      short   == copy /\ (length - offset) < a.len
      length1 == IF short THEN offset + a.len ELSE length
      buf1    == IF short THEN Realloc(buf, length1) ELSE buf
      buf2    == IF copy THEN WriteAt(buf1, offset, a.bytes) ELSE buf1
      off2    == IF copy THEN offset + a.len ELSE offset
      w       == EncodeLengthWord(buf2, off2)
  IN  [buffer |-> w.buffer, bufferLength |-> off2, bufferOffset |-> 0, ret |-> 0]

\* The result of virNetMessageEncodePayloadRaw(msg, data, len).
EncodePayloadRawResult(buf, length, offset, a) ==
  LET copy    == ~a.null /\ a.len > 0
      short   == copy /\ (length - offset) < a.len
      toolong == short /\ (offset + a.len) > (VIR_NET_MESSAGE_MAX + VIR_NET_MESSAGE_LEN_MAX)
      length1 == IF short THEN offset + a.len ELSE length
      buf1    == IF short THEN Realloc(buf, length1) ELSE buf
      buf2    == IF copy THEN WriteAt(buf1, offset, a.bytes) ELSE buf1
      off2    == IF copy THEN offset + a.len ELSE offset
      w       == EncodeLengthWord(buf2, off2)
  IN  IF toolong
      THEN [buffer |-> buf, bufferLength |-> length, bufferOffset |-> offset, ret |-> -1]
      ELSE IF ~w.ok
      THEN [buffer |-> w.buffer, bufferLength |-> length1, bufferOffset |-> off2, ret |-> -1]
      ELSE [buffer |-> w.buffer, bufferLength |-> off2, bufferOffset |-> 0, ret |-> 0]

virNetMessageEncodePayloadRaw ==
  /\ phase \in {"hdr", "nfds"}
  /\ \E a \in RawArgs :
       LET r == EncodePayloadRawResult(buffer, bufferLength, bufferOffset, a)
       IN  /\ buffer' = r.buffer
           /\ bufferLength' = r.bufferLength
           /\ bufferOffset' = r.bufferOffset
           /\ phase' = IF r.ret = 0 THEN "encoded" ELSE "failed"
           /\ op' = [name |-> "EncodePayloadRaw", ret |-> r.ret]
           /\ call' = [filter |-> IF a.null THEN "raw_null" ELSE "raw", data |-> a.bytes,
                       withFDs |-> (phase = "nfds"), numFDs |-> call.numFDs]
  /\ UNCHANGED <<tracked, header, fdVars, cbVars, ioVars, queueVars, errVars>>

(***************************************************************************)
(* The I/O loop around the codec: it carries finished frames and feeds the *)
(* reader first the length word, then the rest of the frame.               *)
(***************************************************************************)
\* Length words a peer may send, around every threshold of the decoder; -1 is
\* the word FF FF FF FF.
TestLengths ==
  {0, 3, 4, 5, 8, HeaderLen + 3, HeaderLen + 4, HeaderLen + 8, HeaderLen + 16,
   VIR_NET_MESSAGE_MAX + VIR_NET_MESSAGE_LEN_MAX,
   VIR_NET_MESSAGE_MAX + VIR_NET_MESSAGE_LEN_MAX + 1, -1}

\* The bytes that follow such a length word: words of value 2, cut to size.
PeerBody(n) == [i \in 1..n |-> IF i % 4 = 0 THEN 2 ELSE 0]

PeerFrames ==
  { BE32(L) \o PeerBody(IF L >= VIR_NET_MESSAGE_LEN_MAX
                           /\ L <= VIR_NET_MESSAGE_MAX + VIR_NET_MESSAGE_LEN_MAX
                        THEN L - VIR_NET_MESSAGE_LEN_MAX ELSE 0) : L \in TestLengths }

\* The writer takes the finished frame off the message; from then on the
\* record is only cleared, freed, or reused for reading that frame.
IOSend ==
  /\ phase = "encoded"
  /\ wire' = [frame |-> Window(buffer, 0, bufferLength), hdr |-> header, call |-> call]
  /\ op' = [name |-> "IOSend", ret |-> 0]
  /\ phase' = "sent"
  /\ UNCHANGED <<msgVars, call, cbCalls, cbWanted, clearedSinceSet, openFds, handed,
                 dupOut, misclosed, input, decoded, queueVars, errVars>>

\* The reader allocates LEN_MAX bytes on an empty message and reads the length
\* word into them.
IOReadLength ==
  /\ phase = "idle"
  /\ buffer = << >>
  /\ bufferLength = 0
  /\ \E f \in (IF wire = NoWire THEN PeerFrames ELSE {wire.frame}) :
       /\ input' = [frame |-> f, fromWire |-> (f = wire.frame)]
       /\ buffer' = SubSeq(f, 1, VIR_NET_MESSAGE_LEN_MAX)
  /\ bufferLength' = VIR_NET_MESSAGE_LEN_MAX
  /\ phase' = "lenread"
  /\ op' = [name |-> "IOReadLength", ret |-> 0]
  /\ UNCHANGED <<tracked, bufferOffset, header, fdVars, cbVars, call, wire, decoded,
                 queueVars, errVars>>

\* The reader fills the grown buffer with the rest of the frame.
IOReadBody ==
  /\ phase = "len"
  /\ buffer' = WriteAt(buffer, VIR_NET_MESSAGE_LEN_MAX,
                       SubSeq(input.frame, VIR_NET_MESSAGE_LEN_MAX + 1,
                              Min(Len(input.frame), bufferLength)))
  /\ phase' = "body"
  /\ op' = [name |-> "IOReadBody", ret |-> 0]
  /\ UNCHANGED <<tracked, bufferLength, bufferOffset, header, fdVars, cbVars, call, ioVars,
                 queueVars, errVars>>

(***************************************************************************)
(* 4.2 / 4.3 / 4.4 Decoding.                                               *)
(***************************************************************************)
\* The adjusted length compared with the cap of the whole frame.
DecodeLengthWideCap(buf, length, offset, w) ==
  LET len == FromBE32(w)
      rem == IF len >= 0 THEN len - VIR_NET_MESSAGE_LEN_MAX ELSE len
  IN  IF length < 4
      THEN [buffer |-> buf, bufferLength |-> length, bufferOffset |-> offset, ret |-> -1]
      ELSE IF \/ ULess(len, VIR_NET_MESSAGE_LEN_MAX)
              \/ UGreater(rem, VIR_NET_MESSAGE_MAX + VIR_NET_MESSAGE_LEN_MAX)
      THEN [buffer |-> buf, bufferLength |-> length, bufferOffset |-> 4, ret |-> -1]
      ELSE [buffer |-> Realloc(buf, length + rem), bufferLength |-> length + rem,
            bufferOffset |-> 4, ret |-> 0]

\* The length word not adjusted by the size of the length word itself.
DecodeLengthNoAdjust(buf, length, offset, w) ==
  LET len == FromBE32(w)
  IN  IF length < 4
      THEN [buffer |-> buf, bufferLength |-> length, bufferOffset |-> offset, ret |-> -1]
      ELSE IF ULess(len, VIR_NET_MESSAGE_LEN_MAX) \/ UGreater(len, VIR_NET_MESSAGE_MAX)
      THEN [buffer |-> buf, bufferLength |-> length, bufferOffset |-> 4, ret |-> -1]
      ELSE [buffer |-> Realloc(buf, length + len), bufferLength |-> length + len,
            bufferOffset |-> 4, ret |-> 0]

\* The result of virNetMessageDecodeLength when the length word read is w.
DecodeLengthResult(buf, length, offset, w) ==
  LET len == FromBE32(w)
      rem == IF len >= 0 THEN len - VIR_NET_MESSAGE_LEN_MAX ELSE len
  IN  IF length < 4
      THEN [buffer |-> buf, bufferLength |-> length, bufferOffset |-> offset, ret |-> -1]
      ELSE IF ULess(len, VIR_NET_MESSAGE_LEN_MAX) \/ UGreater(rem, VIR_NET_MESSAGE_MAX)
      THEN [buffer |-> buf, bufferLength |-> length, bufferOffset |-> 4, ret |-> -1]
      ELSE [buffer |-> Realloc(buf, length + rem), bufferLength |-> length + rem,
            bufferOffset |-> 4, ret |-> 0]

virNetMessageDecodeLength ==
  /\ phase = "lenread"
  /\ \E w \in WordAt(buffer, 0) :
       LET r == DecodeLengthResult(buffer, bufferLength, bufferOffset, w)
       IN  /\ buffer' = r.buffer
           /\ bufferLength' = r.bufferLength
           /\ bufferOffset' = r.bufferOffset
           /\ phase' = IF r.ret = 0 THEN "len" ELSE "failed"
           /\ op' = [name |-> "DecodeLength", ret |-> r.ret]
  /\ UNCHANGED <<tracked, header, fdVars, cbVars, call, wire, input, decoded, queueVars,
                 errVars>>

\* The result of virNetMessageDecodeHeader.
DecodeHeaderResult(buf, length, offset, h) ==
  IF length < VIR_NET_MESSAGE_LEN_MAX
  THEN [header |-> h, bufferOffset |-> offset, ret |-> -1]
  ELSE LET off == VIR_NET_MESSAGE_LEN_MAX
           r   == DecodeHeaderFields(h, Window(buf, off, length - off))
       IN  IF r.ok
           THEN [header |-> r.hdr, bufferOffset |-> off + r.pos, ret |-> 0]
           ELSE [header |-> r.hdr, bufferOffset |-> off, ret |-> -1]

virNetMessageDecodeHeader ==
  /\ phase = "body"
  /\ LET r == DecodeHeaderResult(buffer, bufferLength, bufferOffset, header)
     IN  /\ header' = r.header
         /\ bufferOffset' = r.bufferOffset
         /\ phase' = IF r.ret = 0 THEN "dhdr" ELSE "failed"
         /\ op' = [name |-> "DecodeHeader", ret |-> r.ret]
  /\ UNCHANGED <<tracked, buffer, bufferLength, fdVars, cbVars, call, ioVars, queueVars,
                 errVars>>

\* The payload stream created after the length word instead of at bufferOffset.
DecodePayloadAfterLength(buf, length, offset, filter) ==
  LET r == FilterDecode(filter, Window(buf, VIR_NET_MESSAGE_LEN_MAX,
                                       length - VIR_NET_MESSAGE_LEN_MAX))
  IN  IF r.ok
      THEN [bufferLength |-> length + r.pos, value |-> r.value, ret |-> 0]
      ELSE [bufferLength |-> length, value |-> r.value, ret |-> -1]

\* The result of virNetMessageDecodePayload with the given filter.
DecodePayloadResult(buf, length, offset, filter) ==
  LET r == FilterDecode(filter, Window(buf, offset, length - offset))
  IN  IF r.ok
      THEN [bufferLength |-> length + r.pos, value |-> r.value, ret |-> 0]
      ELSE [bufferLength |-> length, value |-> r.value, ret |-> -1]

\* The payload decoder is called after the header decoder, before or after the
\* decoder of the descriptor count.
virNetMessageDecodePayload ==
  /\ phase \in {"dhdr", "dnfds"}
  /\ \E f \in Filters :
       LET r == DecodePayloadResult(buffer, bufferLength, bufferOffset, f)
       IN  /\ bufferLength' = r.bufferLength
           /\ decoded' = r.value
           /\ phase' = IF r.ret # 0 THEN "failed"
                       ELSE IF phase = "dhdr" THEN "dpayload" ELSE "dfds"
           /\ op' = [name |-> "DecodePayload", ret |-> r.ret, filter |-> f,
                     afterFDs |-> (phase = "dnfds")]
  /\ UNCHANGED <<tracked, buffer, bufferOffset, header, fdVars, cbVars, call, wire, input,
                 queueVars, errVars>>

\* The offset advanced without asking the stream whether a word was left.
DecodeNumFDsUnchecked(length, offset, slots, n, w) ==
  [bufferOffset |-> offset + 4, fds |-> slots, nfds |-> n,
   ret |-> IF length - offset < 4 THEN -1 ELSE 0]

\* The slots allocated anew whether or not the message already has some.
DecodeNumFDsReallocates(length, offset, slots, n, w) ==
  LET numFDs == FromBE32(w)
  IN  IF length - offset < 4
      THEN [bufferOffset |-> offset, fds |-> slots, nfds |-> n, ret |-> -1]
      ELSE IF UGreater(numFDs, VIR_NET_MESSAGE_NUM_FDS_MAX)
      THEN [bufferOffset |-> offset + 4, fds |-> slots, nfds |-> n, ret |-> -1]
      ELSE [bufferOffset |-> offset + 4, fds |-> [i \in 1..numFDs |-> -1],
            nfds |-> numFDs, ret |-> 0]

\* The result of virNetMessageDecodeNumFDs when the word read is w.
DecodeNumFDsResult(length, offset, slots, n, w) ==
  LET numFDs == FromBE32(w)
  IN  IF length - offset < 4
      THEN [bufferOffset |-> offset, fds |-> slots, nfds |-> n, ret |-> -1]
      ELSE IF UGreater(numFDs, VIR_NET_MESSAGE_NUM_FDS_MAX)
      THEN [bufferOffset |-> offset + 4, fds |-> slots, nfds |-> n, ret |-> -1]
      ELSE IF n = 0
      THEN [bufferOffset |-> offset + 4, fds |-> [i \in 1..numFDs |-> -1],
            nfds |-> numFDs, ret |-> 0]
      ELSE [bufferOffset |-> offset + 4, fds |-> slots, nfds |-> n, ret |-> 0]

virNetMessageDecodeNumFDs ==
  /\ phase \in {"dhdr", "dpayload"}
  /\ \E w \in WordAt(buffer, bufferOffset) :
       LET r == DecodeNumFDsResult(bufferLength, bufferOffset, fds, nfds, w)
       IN  /\ bufferOffset' = r.bufferOffset
           /\ fds' = r.fds
           /\ nfds' = r.nfds
           /\ phase' = IF r.ret # 0 THEN "failed"
                       ELSE IF phase = "dhdr" THEN "dnfds" ELSE "dfds"
           /\ op' = [name |-> "DecodeNumFDs", ret |-> r.ret,
                     afterPayload |-> (phase = "dpayload")]
  /\ UNCHANGED <<tracked, buffer, bufferLength, header, donefds, openFds, handed, dupOut,
                 misclosed, cbVars, call, ioVars, queueVars, errVars>>

(***************************************************************************)
(* 4.4 Descriptor attachment.                                              *)
(***************************************************************************)
\* The descriptors dup() can still hand out: those not open in the process,
\* whether the message, the I/O loop or the caller holds them.
FreeIds == FdIds \ (openFds \cup handed \cup dupOut)

\* dup() returns the lowest descriptor that is not open.
Lowest(free) == CHOOSE d \in free : \A e \in free : d <= e

\* How the two system calls behind a duplication can go.
SysOutcomes == {"ok", "dup_fails", "inherit_fails"}

\* The error path left without closing the duplicate.
AddFDNoClose(slots, n, open, free, outcome) ==
  LET newfd == IF outcome = "dup_fails" \/ free = {} THEN -1 ELSE Lowest(free)
  IN  IF newfd < 0
      THEN [fds |-> slots, nfds |-> n, open |-> open, created |-> {}, closed |-> {},
            ret |-> -1]
      ELSE IF outcome = "inherit_fails"
      THEN [fds |-> slots, nfds |-> n, open |-> open \cup {newfd}, created |-> {newfd},
            closed |-> {}, ret |-> -1]
      ELSE [fds |-> Append(slots, newfd), nfds |-> n + 1, open |-> open \cup {newfd},
            created |-> {newfd}, closed |-> {}, ret |-> 0]

\* The result of virNetMessageAddFD: dup, clear the inherit flag, append.
\* Either system call may fail (dup also when no descriptor is free); the
\* error path closes the duplicate if there is one.
AddFDResult(slots, n, open, free, outcome) ==
  LET newfd == IF outcome = "dup_fails" \/ free = {} THEN -1 ELSE Lowest(free)
  IN  IF newfd < 0
      THEN [fds |-> slots, nfds |-> n, open |-> open, created |-> {}, closed |-> {},
            ret |-> -1]
      ELSE IF outcome = "inherit_fails"
      THEN [fds |-> slots, nfds |-> n, open |-> open, created |-> {newfd},
            closed |-> {newfd}, ret |-> -1]
      ELSE [fds |-> Append(slots, newfd), nfds |-> n + 1, open |-> open \cup {newfd},
            created |-> {newfd}, closed |-> {}, ret |-> 0]

virNetMessageAddFD ==
  /\ phase = "idle"
  /\ wire = NoWire
  /\ nfds < MaxAddFD
  /\ \E outcome \in SysOutcomes :
       LET r == AddFDResult(fds, nfds, openFds, FreeIds, outcome)
       IN  /\ fds' = r.fds
           /\ nfds' = r.nfds
           /\ openFds' = r.open
           /\ op' = [name |-> "AddFD", ret |-> r.ret, created |-> r.created,
                     closed |-> r.closed]
  /\ UNCHANGED <<tracked, bufVars, header, donefds, handed, dupOut, misclosed, cbVars,
                 phase, call, ioVars, queueVars, errVars>>

\* The result of virNetMessageDupFD(msg, slot): the duplicate made, whether it
\* was closed again, and the return value.  dup() of a slot holding -1 fails.
DupFDResult(slots, n, free, slot, outcome) ==
  IF slot >= n
  THEN [created |-> {}, closed |-> {}, ret |-> -1]
  ELSE LET src == slots[slot + 1]
           fd  == IF src < 0 \/ outcome = "dup_fails" \/ free = {} THEN -1 ELSE Lowest(free)
       IN  IF fd < 0
           THEN [created |-> {}, closed |-> {}, ret |-> -1]
           ELSE IF outcome = "inherit_fails"
           THEN [created |-> {fd}, closed |-> {fd}, ret |-> -1]
           ELSE [created |-> {fd}, closed |-> {}, ret |-> fd]

\* The slots a caller asks for: every slot there can be, and one past them.
Slots == 0..MaxAddFD

virNetMessageDupFD ==
  /\ Callable
  /\ \E slot \in Slots, outcome \in SysOutcomes :
       LET r == DupFDResult(fds, nfds, FreeIds, slot, outcome)
       IN  /\ dupOut' = dupOut \cup (r.created \ r.closed)
           /\ op' = [name |-> "DupFD", ret |-> r.ret, slot |-> slot,
                     created |-> r.created, closed |-> r.closed]
  /\ UNCHANGED <<msgVars, openFds, handed, misclosed, phase, call, cbCalls, cbWanted,
                 clearedSinceSet, ioVars, queueVars, errVars>>

\* The I/O loop has passed the next descriptor to the peer: it takes the
\* descriptor over, sets the slot to -1 and counts it as done.
IOHandoff ==
  /\ Callable
  /\ donefds < nfds
  /\ fds[donefds + 1] >= 0
  /\ handed' = handed \cup {fds[donefds + 1]}
  /\ openFds' = openFds \ {fds[donefds + 1]}
  /\ fds' = [fds EXCEPT ![donefds + 1] = -1]
  /\ donefds' = donefds + 1
  /\ op' = [name |-> "IOHandoff", ret |-> 0]
  /\ UNCHANGED <<tracked, bufVars, header, nfds, dupOut, misclosed, cbVars, phase, call,
                 ioVars, queueVars, errVars>>

(***************************************************************************)
(* 4.5 Transmit queue.                                                     *)
(***************************************************************************)
\* The walk to the tail left out: the new message is linked behind the head.
LastOfNoWalk(nx, m) == m

\* while (tmp->next) tmp = tmp->next: the last message of the list that
\* starts at m.
RECURSIVE LastOf(_, _)
LastOf(nx, m) == IF nx[m] = NULL THEN m ELSE LastOf(nx, nx[m])

\* The list that starts at m, as a sequence.
RECURSIVE ListFrom(_, _)
ListFrom(nx, m) == IF m = NULL THEN << >> ELSE <<m>> \o ListFrom(nx, nx[m])

Range(s) == { s[i] : i \in DOMAIN s }

virNetMessageQueuePush ==
  /\ \E m \in Msgs \ Range(pushed) :
       /\ next[m] = NULL
       /\ IF queue # NULL
          THEN /\ next' = [next EXCEPT ![LastOf(next, queue)] = m]
               /\ queue' = queue
          ELSE /\ queue' = m
               /\ next' = next
       /\ pushed' = Append(pushed, m)
       /\ op' = [name |-> "QueuePush", ret |-> m]
  /\ UNCHANGED <<msgVars, phase, call, cbCalls, cbWanted, clearedSinceSet, openFds,
                 handed, dupOut, misclosed, ioVars, served, errVars>>

\* The head's link read without being taken out of it.
ServeResultKeepsLink(q, nx) ==
  IF q # NULL
  THEN [queue |-> nx[q], next |-> nx, ret |-> q]
  ELSE [queue |-> q, next |-> nx, ret |-> q]

\* The result of virNetMessageQueueServe on the queue with head q:
\* g_steal_pointer hands the head's link to the queue and leaves NULL in it.
ServeResult(q, nx) ==
  IF q # NULL
  THEN [queue |-> nx[q], next |-> [nx EXCEPT ![q] = NULL], ret |-> q]
  ELSE [queue |-> q, next |-> nx, ret |-> q]

virNetMessageQueueServe ==
  /\ queue' = ServeResult(queue, next).queue
  /\ next' = ServeResult(queue, next).next
  /\ served' = IF queue # NULL THEN Append(served, queue) ELSE served
  /\ op' = [name |-> "QueueServe", ret |-> ServeResult(queue, next).ret]
  /\ UNCHANGED <<msgVars, phase, call, cbCalls, cbWanted, clearedSinceSet, openFds,
                 handed, dupOut, misclosed, ioVars, pushed, errVars>>

(***************************************************************************)
(* 4.6 Error capture.                                                      *)
(***************************************************************************)
\* The thread-local error object: << >> when the thread has none, <<e>> when
\* it has the virError e.  A string of e is << >> when NULL.  The last one is
\* what virResetLastError leaves: an object whose code is VIR_ERR_OK.
LastErrors ==
  { [code |-> 38, domain |-> 10, message |-> <<"cannot open">>, level |-> 2,
     str1 |-> <<"a">>, str2 |-> << >>, str3 |-> <<"c">>, int1 |-> -1, int2 |-> 13],
    [code |-> 39, domain |-> 7, message |-> << >>, level |-> 2,
     str1 |-> << >>, str2 |-> <<"b">>, str3 |-> << >>, int1 |-> 0, int2 |-> 0],
    [code |-> 1, domain |-> 7, message |-> <<"internal">>, level |-> 1,
     str1 |-> << >>, str2 |-> << >>, str3 |-> << >>, int1 |-> 5, int2 |-> -1],
    [code |-> 9, domain |-> 0, message |-> <<"no memory">>, level |-> 2,
     str1 |-> <<"a">>, str2 |-> <<"b">>, str3 |-> <<"c">>, int1 |-> 1, int2 |-> 2],
    [code |-> VIR_ERR_OK, domain |-> 0, message |-> << >>, level |-> 0,
     str1 |-> << >>, str2 |-> << >>, str3 |-> << >>, int1 |-> 0, int2 |-> 0] }

\* virGetLastError(): the object, or NULL when the thread has none or its
\* code is VIR_ERR_OK.
virGetLastError(obj) ==
  IF obj # << >> /\ obj[1].code # VIR_ERR_OK THEN obj ELSE << >>

\* The first-error test left out: every call stores what it finds.
SaveErrorOverwrites(r, verr) ==
  IF verr # << >>
  THEN [ZeroError EXCEPT !.code = verr[1].code, !.domain = verr[1].domain,
                         !.message = verr[1].message, !.level = verr[1].level,
                         !.str1 = verr[1].str1, !.str2 = verr[1].str2,
                         !.str3 = verr[1].str3, !.int1 = verr[1].int1,
                         !.int2 = verr[1].int2]
  ELSE [ZeroError EXCEPT !.code = VIR_ERR_INTERNAL_ERROR, !.domain = VIR_FROM_RPC,
                         !.message = <<"Library function returned error but did not set virError">>,
                         !.level = VIR_ERR_ERROR]

\* The record virNetMessageSaveError(rerr) leaves when virGetLastError()
\* returns verr: untouched when it already holds an error; otherwise zeroed
\* and filled from verr, each string that is there duplicated, or from the
\* fixed internal error when verr is NULL.
SaveErrorResult(r, verr) ==
  IF r.code # VIR_ERR_OK
  THEN r
  ELSE IF verr # << >>
  THEN [ZeroError EXCEPT !.code = verr[1].code, !.domain = verr[1].domain,
                         !.message = verr[1].message, !.level = verr[1].level,
                         !.str1 = verr[1].str1, !.str2 = verr[1].str2,
                         !.str3 = verr[1].str3, !.int1 = verr[1].int1,
                         !.int2 = verr[1].int2]
  ELSE [ZeroError EXCEPT !.code = VIR_ERR_INTERNAL_ERROR, !.domain = VIR_FROM_RPC,
                         !.message = <<"Library function returned error but did not set virError">>,
                         !.level = VIR_ERR_ERROR]

virNetMessageSaveError ==
  /\ rerr' = SaveErrorResult(rerr, virGetLastError(lastError))
  /\ firstSaved' = IF firstSaved = << >> THEN <<lastError>> ELSE firstSaved
  /\ op' = [name |-> "SaveError", ret |-> 0]
  /\ UNCHANGED <<msgVars, phase, call, cbCalls, cbWanted, clearedSinceSet, openFds,
                 handed, dupOut, misclosed, ioVars, queueVars, lastError>>

\* The caller takes a record whose code is VIR_ERR_OK but whose other fields
\* are left over from an earlier use.
StaleError == [ZeroError EXCEPT !.level = 2, !.str1 = <<"old">>, !.int2 = 7]

ErrorRecordStale ==
  /\ rerr = ZeroError
  /\ firstSaved = << >>
  /\ rerr' = StaleError
  /\ op' = [name |-> "ErrorRecordStale", ret |-> 0]
  /\ UNCHANGED <<msgVars, phase, call, cbCalls, cbWanted, clearedSinceSet, openFds,
                 handed, dupOut, misclosed, ioVars, queueVars, lastError, firstSaved>>

\* Some other library call fails on this thread and reports its error.
ThreadErrorSet ==
  /\ \E e \in LastErrors : lastError' = <<e>>
  /\ lastError' # lastError
  /\ op' = [name |-> "ThreadErrorSet", ret |-> 0]
  /\ UNCHANGED <<msgVars, phase, call, cbCalls, cbWanted, clearedSinceSet, openFds,
                 handed, dupOut, misclosed, ioVars, queueVars, rerr, firstSaved>>

\* The thread's error object is released.
ThreadErrorFree ==
  /\ lastError # << >>
  /\ lastError' = << >>
  /\ op' = [name |-> "ThreadErrorFree", ret |-> 0]
  /\ UNCHANGED <<msgVars, phase, call, cbCalls, cbWanted, clearedSinceSet, openFds,
                 handed, dupOut, misclosed, ioVars, queueVars, rerr, firstSaved>>

(***************************************************************************)
(* Specifications.                                                         *)
(***************************************************************************)
Next ==
  \/ virNetMessageNew
  \/ SetHeader
  \/ SetCallback
  \/ virNetMessageClearFDs
  \/ virNetMessageClearPayload
  \/ virNetMessageClear
  \/ virNetMessageFree
  \/ virNetMessageFreeNull
  \/ virNetMessageEncodeHeader
  \/ virNetMessageEncodeNumFDs
  \/ virNetMessageEncodePayload
  \/ EncodePayloadGrow
  \/ EncodePayloadError
  \/ EncodePayloadDone
  \/ virNetMessageEncodePayloadRaw
  \/ IOSend
  \/ IOReadLength
  \/ IOReadBody
  \/ virNetMessageDecodeLength
  \/ virNetMessageDecodeHeader
  \/ virNetMessageDecodePayload
  \/ virNetMessageDecodeNumFDs
  \/ virNetMessageAddFD

Spec == Init /\ [][Next]_vars

\* The owner of one transmit queue pushing and serving its messages.
NextQueue ==
  \/ virNetMessageQueuePush
  \/ virNetMessageQueueServe

SpecQueue == Init /\ [][NextQueue]_vars

\* The owner of a message fills it in, attaches descriptors, starts a frame,
\* links it into the queue with other messages, and clears it for reuse.
NextClear ==
  \/ SetHeader
  \/ SetCallback
  \/ virNetMessageAddFD
  \/ IOHandoff
  \/ virNetMessageEncodeHeader
  \/ virNetMessageQueuePush
  \/ virNetMessageClear

SpecClear == Init /\ [][NextClear]_vars

\* The life of a message's descriptors: attached by the caller, taken over by
\* the I/O loop, announced by a frame read from the
\* peer, and closed when the message is cleared or freed.
NextFDs ==
  \/ virNetMessageNew
  \/ SetCallback
  \/ virNetMessageAddFD
  \/ IOHandoff
  \/ IOReadLength
  \/ virNetMessageDecodeLength
  \/ IOReadBody
  \/ virNetMessageDecodeHeader
  \/ virNetMessageDecodeNumFDs
  \/ virNetMessageClearFDs
  \/ virNetMessageClearPayload
  \/ virNetMessageClear
  \/ virNetMessageFree

SpecFDs == Init /\ [][NextFDs]_vars

\* A caller attaching descriptors to a message and taking duplicates out of
\* it while the I/O loop hands descriptors on.
NextDup ==
  \/ virNetMessageAddFD
  \/ virNetMessageDupFD
  \/ IOHandoff
  \/ virNetMessageClearFDs

SpecDup == Init /\ [][NextDup]_vars

\* A thread whose last error comes and goes while cleanup paths save it.
NextError ==
  \/ virNetMessageSaveError
  \/ ErrorRecordStale
  \/ ThreadErrorSet
  \/ ThreadErrorFree

SpecError == Init /\ [][NextError]_vars

\* One thread encoding a frame: the retry loop of the typed encoder runs to
\* its return without waiting for anything, so its steps are taken whenever
\* they are enabled.
EncodePayloadLoop ==
  \/ EncodePayloadGrow
  \/ EncodePayloadError
  \/ EncodePayloadDone

NextEncode ==
  \/ SetHeader
  \/ virNetMessageAddFD
  \/ virNetMessageEncodeHeader
  \/ virNetMessageEncodeNumFDs
  \/ virNetMessageEncodePayload
  \/ EncodePayloadGrow
  \/ EncodePayloadError
  \/ EncodePayloadDone

SpecEncode == Init /\ [][NextEncode]_vars /\ WF_vars(EncodePayloadLoop)

\* A record used over and over without being cleared: frames are written
\* into it and read into it, and a new frame is started on top of the last.
NextReuse ==
  \/ SetHeader
  \/ virNetMessageEncodeHeader
  \/ EncodeHeaderReused
  \/ virNetMessageEncodePayloadRaw
  \/ IOReadLength
  \/ virNetMessageDecodeLength
  \/ IOReadBody
  \/ virNetMessageDecodeHeader
  \/ virNetMessageDecodePayload

SpecReuse == Init /\ [][NextReuse]_vars

(***************************************************************************)
(* Properties.                                                             *)
(***************************************************************************)
\* The messages waiting in the queue, head first.
Queued == ListFrom(next, queue)

\* C1: the transmit queue is FIFO.  Whatever pushes and serves its owner has
\* made, the messages served so far are the first pushed, in push order, and
\* the queue holds exactly the others, in push order: none lost, none twice.
\* So after as many serves as pushes the queue is empty.
C1_QueueFIFO ==
  /\ Len(served) <= Len(pushed)
  /\ served = SubSeq(pushed, 1, Len(served))
  /\ Queued = SubSeq(pushed, Len(served) + 1, Len(pushed))
  /\ (Len(served) = Len(pushed) => queue = NULL)

\* Every message was pushed, then every message was served.
C1_Witness ==
  /\ Len(pushed) = NumMsgs
  /\ Len(served) = NumMsgs
  /\ op.name = "QueueServe"
  /\ op.ret = pushed[NumMsgs]

\* The number of payload bytes the last payload call was asked to put.
PayloadBytes ==
  CASE call.filter = "uint_array" -> 4 * (1 + Len(call.data))
    [] call.filter = "raw"        -> Len(call.data)
    [] OTHER                      -> 0

\* The length word at the start of the buffer.
LengthPrefix == FromBE32(SubSeq(buffer, 1, VIR_NET_MESSAGE_LEN_MAX))

\* C2: after a successful encode finalisation (the typed or the raw payload
\* encoder returning 0 after the header encoder, for any payload, the empty one
\* too) the big-endian word at offset 0 equals bufferLength, bufferLength is
\* the number of bytes written (length word, header, descriptor count if one
\* was encoded, payload), and bufferOffset is 0.
C2_LengthPrefix ==
  phase = "encoded" =>
    /\ Len(buffer) >= bufferLength
    /\ LengthPrefix = bufferLength
    /\ bufferLength = VIR_NET_MESSAGE_LEN_MAX + HeaderLen
                      + (IF call.withFDs THEN 4 ELSE 0) + PayloadBytes
    /\ bufferOffset = 0

\* A typed payload that needed the buffer grown has been finalised.
C2_Witness ==
  /\ phase = "encoded"
  /\ op = [name |-> "EncodePayload", ret |-> 0]
  /\ call.filter = "uint_array"
  /\ bufferLength > VIR_NET_MESSAGE_INITIAL + VIR_NET_MESSAGE_LEN_MAX
  /\ LengthPrefix = bufferLength

\* C3: bufferOffset <= bufferLength in every state of a message: after New and
\* after every step, successful or failed, of the encode and decode sequences
\* in their documented order, interleaved with ClearFDs, ClearPayload, Clear.
C3_OffsetWithinLength == bufferOffset <= bufferLength

\* The whole decode sequence has run and the descriptor count was read.
C3_Witness ==
  /\ phase = "dfds"
  /\ op = [name |-> "DecodeNumFDs", ret |-> 0, afterPayload |-> TRUE]
  /\ bufferOffset = VIR_NET_MESSAGE_LEN_MAX + HeaderLen + 4
  /\ bufferOffset < bufferLength

\* The reader is working on a frame that the header encoder followed by the
\* typed payload encoder produced.
TypedFrameRead ==
  /\ input.fromWire
  /\ wire.call.filter \in {"uint_array", "xdr_void"}
  /\ ~wire.call.withFDs

\* C4: typed round trip.  A frame made by EncodeHeader and EncodePayload(v)
\* from header h, read back on a cleared message (length word to
\* DecodeLength, the rest into the grown buffer, then DecodeHeader and
\* DecodePayload with the same filter), gives header h and value v, and none
\* of the decode steps fails.
C4_TypedRoundTrip ==
  TypedFrameRead =>
    /\ (op.name \in {"DecodeLength", "DecodeHeader"} => op.ret = 0)
    /\ (op.name = "DecodeHeader" => header = wire.hdr)
    /\ (op.name = "DecodePayload" /\ ~op.afterFDs /\ op.filter = wire.call.filter =>
          /\ op.ret = 0
          /\ header = wire.hdr
          /\ decoded = wire.call.data)

\* An array that needed the buffer grown came back, under a header with a
\* negative procedure number.
C4_Witness ==
  /\ TypedFrameRead
  /\ phase = "dpayload"
  /\ op = [name |-> "DecodePayload", ret |-> 0, filter |-> "uint_array",
           afterFDs |-> FALSE]
  /\ Len(decoded) >= 8
  /\ decoded = wire.call.data
  /\ header = wire.hdr
  /\ header.proc < 0

\* The length word the I/O loop handed to the reader.
InputLength == FromBE32(SubSeq(input.frame, 1, VIR_NET_MESSAGE_LEN_MAX))

\* C5: DecodeLength on a message holding exactly the LEN_MAX bytes of the
\* length word L fails exactly when L < LEN_MAX or L - LEN_MAX > MAX (L taken
\* as unsigned); a failure leaves bufferLength and the buffer as they were; a
\* success leaves bufferLength = L, a buffer of L bytes whose first LEN_MAX
\* bytes are kept, and bufferOffset = LEN_MAX.
C5_DecodeLength ==
  op.name = "DecodeLength" =>
    LET L      == InputLength
        word   == SubSeq(input.frame, 1, VIR_NET_MESSAGE_LEN_MAX)
        reject == \/ ULess(L, VIR_NET_MESSAGE_LEN_MAX)
                  \/ L < 0
                  \/ L - VIR_NET_MESSAGE_LEN_MAX > VIR_NET_MESSAGE_MAX
    IN  /\ op.ret \in {0, -1}
        /\ (op.ret = -1) <=> reject
        /\ op.ret = -1 => /\ bufferLength = VIR_NET_MESSAGE_LEN_MAX
                          /\ buffer = word
        /\ op.ret = 0 => /\ bufferLength = L
                         /\ Len(buffer) = L
                         /\ SubSeq(buffer, 1, VIR_NET_MESSAGE_LEN_MAX) = word
                         /\ bufferOffset = VIR_NET_MESSAGE_LEN_MAX

\* The largest frame length was accepted.
C5_Witness ==
  /\ op = [name |-> "DecodeLength", ret |-> 0]
  /\ InputLength = VIR_NET_MESSAGE_MAX + VIR_NET_MESSAGE_LEN_MAX
  /\ bufferLength = VIR_NET_MESSAGE_MAX + VIR_NET_MESSAGE_LEN_MAX

\* The frame sizes the wire format allows.
MinFrame == VIR_NET_MESSAGE_LEN_MAX + HeaderLen

MaxFrame == VIR_NET_MESSAGE_LEN_MAX + VIR_NET_MESSAGE_MAX

\* C6 as stated: every length DecodeLength accepts and every bufferLength a
\* successful encode finalisation leaves lies within [MinFrame, MaxFrame].
C6_Original ==
  /\ (op = [name |-> "DecodeLength", ret |-> 0] =>
        bufferLength >= MinFrame /\ bufferLength <= MaxFrame)
  /\ (phase = "encoded" => bufferLength >= MinFrame /\ bufferLength <= MaxFrame)

\* C6, amended: every length L DecodeLength accepts lies within
\* [LEN_MAX, MaxFrame]; a frame shorter than MinFrame is turned down only by
\* DecodeHeader; every bufferLength a successful encode finalisation leaves
\* lies within [MinFrame, MaxFrame].
C6_FrameSize ==
  /\ (op = [name |-> "DecodeLength", ret |-> 0] =>
        /\ bufferLength = InputLength
        /\ bufferLength >= VIR_NET_MESSAGE_LEN_MAX
        /\ bufferLength <= MaxFrame)
  /\ (op.name = "DecodeHeader" => (op.ret = 0 <=> bufferLength >= MinFrame))
  /\ (phase = "encoded" => bufferLength >= MinFrame /\ bufferLength <= MaxFrame)

\* DecodeLength accepted a frame that is nothing but its length word.
C6_Witness ==
  /\ op = [name |-> "DecodeLength", ret |-> 0]
  /\ InputLength = VIR_NET_MESSAGE_LEN_MAX
  /\ bufferLength = VIR_NET_MESSAGE_LEN_MAX

\* The raw encoder has just returned from a call with len bytes, made right
\* after the header encoder.
RawAfterHeader(len) ==
  /\ op.name = "EncodePayloadRaw"
  /\ call.filter = "raw"
  /\ ~call.withFDs
  /\ Len(call.data) = len

\* C7 as stated: a raw payload of exactly MAX bytes right after EncodeHeader
\* is accepted, with bufferLength and the length word both MAX + LEN_MAX.
C7_Original ==
  RawAfterHeader(VIR_NET_MESSAGE_MAX) =>
    /\ op.ret = 0
    /\ bufferLength = MaxFrame
    /\ LengthPrefix = MaxFrame

\* C7, amended: the header counts towards MAX.  A raw payload of exactly
\* MAX - HeaderLen bytes right after EncodeHeader is accepted, with
\* bufferLength and the length word both MAX + LEN_MAX; one of exactly MAX
\* bytes is refused and the cursors stay as EncodeHeader left them.
C7_RawBoundary ==
  /\ (RawAfterHeader(VIR_NET_MESSAGE_MAX - HeaderLen) =>
        /\ op.ret = 0
        /\ bufferLength = MaxFrame
        /\ LengthPrefix = MaxFrame)
  /\ (RawAfterHeader(VIR_NET_MESSAGE_MAX) =>
        /\ op.ret = -1
        /\ bufferLength = VIR_NET_MESSAGE_INITIAL + VIR_NET_MESSAGE_LEN_MAX
        /\ bufferOffset = MinFrame)

\* The largest raw payload was encoded.
C7_Witness ==
  /\ RawAfterHeader(VIR_NET_MESSAGE_MAX - HeaderLen)
  /\ phase = "encoded"
  /\ bufferLength = MaxFrame
  /\ buffer[MaxFrame] = RawBytes(VIR_NET_MESSAGE_MAX - HeaderLen)[VIR_NET_MESSAGE_MAX - HeaderLen]

\* C8: EncodePayloadRaw with data and len > 0, after EncodeHeader and possibly
\* EncodeNumFDs, fails exactly when bufferOffset + len > MAX + LEN_MAX; a
\* failure writes nothing (buffer and both cursors as before); a success has
\* the len bytes at the old bufferOffset, what was encoded before them
\* untouched, and bufferLength = old bufferOffset + len.
C8_RawEncode ==
  [][(/\ phase \in {"hdr", "nfds"}
      /\ op'.name = "EncodePayloadRaw"
      /\ call'.filter = "raw"
      /\ Len(call'.data) > 0)
     => LET len == Len(call'.data)
        IN  /\ op'.ret \in {0, -1}
            /\ (op'.ret = -1) <=> (bufferOffset + len > MaxFrame)
            /\ op'.ret = -1 => UNCHANGED bufVars
            /\ op'.ret = 0 =>
                 /\ bufferLength' = bufferOffset + len
                 /\ Window(buffer', bufferOffset, len) = call'.data
                 /\ Window(buffer', VIR_NET_MESSAGE_LEN_MAX,
                           bufferOffset - VIR_NET_MESSAGE_LEN_MAX)
                      = Window(buffer, VIR_NET_MESSAGE_LEN_MAX,
                               bufferOffset - VIR_NET_MESSAGE_LEN_MAX)]_vars

\* A payload that would fit after the header alone was refused after the
\* descriptor count, and nothing moved.
C8_Witness ==
  /\ op = [name |-> "EncodePayloadRaw", ret |-> -1]
  /\ call.filter = "raw"
  /\ call.withFDs
  /\ Len(call.data) = VIR_NET_MESSAGE_MAX - HeaderLen
  /\ bufferOffset = MinFrame + 4
  /\ bufferLength = VIR_NET_MESSAGE_INITIAL + VIR_NET_MESSAGE_LEN_MAX

\* The steps of the encode sequence of one message.
EncodeSteps ==
  {"EncodeHeader", "EncodeNumFDs", "EncodePayload", "EncodePayloadGrow",
   "EncodePayloadRaw"}

\* C9 as stated: no step of the encode sequence, from EncodeHeader to the
\* return of the payload encoder, makes bufferLength smaller.
C9_Original ==
  [][(phase \in {"idle", "hdr", "nfds", "encoding"} /\ op'.name \in EncodeSteps)
     => bufferLength' >= bufferLength]_vars

\* C9, amended: bufferLength does not decrease during encode up to the
\* finalisation: EncodeHeader, EncodeNumFDs, every growth step and every
\* failed return of a payload encoder leave it equal or larger.  The
\* successful finalisation sets it to the number of bytes written, the old
\* bufferOffset plus the payload bytes, which for the typed encoder is never
\* more than the capacity it replaces.
C9_GrowthUntilFinalise ==
  [][(phase \in {"idle", "hdr", "nfds", "encoding"} /\ op'.name \in EncodeSteps)
     => IF op'.name \in {"EncodePayload", "EncodePayloadRaw"} /\ op'.ret = 0
        THEN /\ bufferLength' = bufferOffset + PayloadBytes'
             /\ (op'.name = "EncodePayload" => bufferLength' <= bufferLength)
        ELSE bufferLength' >= bufferLength]_vars

\* The typed encoder has doubled the capacity twice.
C9_Witness ==
  /\ phase = "encoding"
  /\ op.name = "EncodePayloadGrow"
  /\ bufferLength = 4 * VIR_NET_MESSAGE_INITIAL + VIR_NET_MESSAGE_LEN_MAX

\* C10 as stated: a callback set on a message is called exactly once, with
\* its cookie, by Free and not before, whatever codec operations (the clears
\* too) ran in between; Free(NULL) calls nothing.
C10_Original ==
  /\ (phase # "freed" => cbCalls = << >>)
  /\ (phase = "freed" /\ cbWanted = << >> => cbCalls = << >>)
  /\ (phase = "freed" /\ cbWanted # << >> =>
        /\ Len(cbCalls) = 1
        /\ cbCalls[1].cb = cbWanted[1].cb
        /\ cbCalls[1].opaque = cbWanted[1].opaque)

\* C10, amended: the callback is called at most once, by Free and not
\* before: exactly once, with its cookie, when no Clear came between setting
\* it and Free (ClearFDs, ClearPayload and the encode and decode operations
\* do not matter), and not at all when Clear came between, because Clear
\* zeroes the callback and the cookie; Free(NULL) calls nothing.
C10_Destructor ==
  /\ (phase # "freed" => cbCalls = << >>)
  /\ (phase = "freed" /\ (cbWanted = << >> \/ clearedSinceSet) => cbCalls = << >>)
  /\ (phase = "freed" /\ cbWanted # << >> /\ ~clearedSinceSet =>
        /\ Len(cbCalls) = 1
        /\ cbCalls[1].cb = cbWanted[1].cb
        /\ cbCalls[1].opaque = cbWanted[1].opaque)

\* A message with a callback was encoded, sent, and freed with the one call.
C10_Witness ==
  /\ phase = "freed"
  /\ op.name = "Free"
  /\ wire # NoWire
  /\ cbWanted # << >>
  /\ Len(cbCalls) = 1
  /\ cbCalls[1].opaque = cbWanted[1].opaque

\* C11: Clear keeps the tracked flag and nothing else.  Whatever the record
\* held (header, buffer and cursors, descriptors attached or handed off,
\* callback and cookie, a next link into the queue), after Clear the flag is
\* as before, the header is all zero, bufferLength = bufferOffset = 0, the
\* buffer is released, nfds = donefds = 0, callback, cookie and next link are
\* null, and no destructor call was made.
C11_ClearKeepsTracked ==
  [][op'.name = "Clear" =>
       /\ tracked' = tracked
       /\ header' = ZeroHeader
       /\ bufferLength' = 0
       /\ bufferOffset' = 0
       /\ buffer' = << >>
       /\ nfds' = 0
       /\ donefds' = 0
       /\ fds' = << >>
       /\ cb' = NULL
       /\ opaque' = NULL
       /\ next'[Self] = NULL
       /\ cbCalls' = cbCalls]_vars

\* A tracked message that had a callback, a descriptor handed off and another
\* message queued behind it has been cleared.
C11_Witness ==
  /\ op.name = "Clear"
  /\ tracked
  /\ cbWanted # << >>
  /\ clearedSinceSet
  /\ handed # {}
  /\ Len(pushed) >= 2
  /\ pushed[1] = Self
  /\ next[Self] = NULL
  /\ cbCalls = << >>

\* What a record that took its snapshot from the thread-local object obj must
\* hold: the fields of the error, or the fixed internal error when no error
\* was set.
Snapshot(obj) ==
  IF obj # << >> /\ obj[1].code # VIR_ERR_OK
  THEN [code |-> obj[1].code, domain |-> obj[1].domain, message |-> obj[1].message,
        level |-> obj[1].level, dom |-> << >>, str1 |-> obj[1].str1,
        str2 |-> obj[1].str2, str3 |-> obj[1].str3, int1 |-> obj[1].int1,
        int2 |-> obj[1].int2, net |-> << >>]
  ELSE [code |-> VIR_ERR_INTERNAL_ERROR, domain |-> VIR_FROM_RPC,
        message |-> <<"Library function returned error but did not set virError">>,
        level |-> VIR_ERR_ERROR, dom |-> << >>, str1 |-> << >>, str2 |-> << >>,
        str3 |-> << >>, int1 |-> 0, int2 |-> 0, net |-> << >>]

\* C12: error capture is first-wins.  For a record that starts with code OK
\* and any sequence of SaveError calls, with the thread's last error set,
\* replaced or released between them: after every call the record holds the
\* snapshot of the first call (the error then set, or the fixed internal error
\* when none was), its code is not OK, and a call on a record whose code is
\* not OK changes no field of it.
C12_FirstWins ==
  /\ [](firstSaved # << >> => /\ rerr = Snapshot(firstSaved[1])
                              /\ rerr.code # VIR_ERR_OK)
  /\ [][op'.name = "SaveError" /\ rerr.code # VIR_ERR_OK => rerr' = rerr]_vars

\* An error was saved, the thread's error was replaced by another, and a
\* second SaveError left the first in the record.
C12_Witness ==
  /\ op.name = "SaveError"
  /\ firstSaved # << >>
  /\ firstSaved[1] # << >>
  /\ lastError # << >>
  /\ lastError[1].code # VIR_ERR_OK
  /\ lastError # firstSaved[1]
  /\ rerr.code = firstSaved[1][1].code
  /\ rerr.code # lastError[1].code

\* The payload bytes of the frame the I/O loop carries, as its encoder put
\* them.
WirePayload ==
  CASE wire.call.filter = "uint_array" -> WordsToBytes(ArrayWords(wire.call.data))
    [] wire.call.filter = "raw"        -> wire.call.data
    [] OTHER                           -> << >>

\* The I/O loop carries a frame built by EncodeHeader, EncodeNumFDs and a
\* payload encoder.
FrameWithFDs == wire # NoWire /\ wire.call.withFDs

\* The reader is working on such a frame whose payload is typed.
TypedFrameWithFDsRead ==
  /\ FrameWithFDs
  /\ input.fromWire
  /\ wire.call.filter \in {"uint_array", "xdr_void"}

\* C13 as stated: in a frame built in the order EncodeHeader, EncodeNumFDs,
\* payload encoder, the payload comes right after the header and the
\* descriptor count right after the payload, at the end of the frame; the
\* decode order DecodeLength, DecodeHeader, DecodePayload, DecodeNumFDs gives
\* back the payload value and the count.
C13_Original ==
  /\ (FrameWithFDs =>
        LET L == Len(wire.frame)
        IN  /\ L = MinFrame + Len(WirePayload) + 4
            /\ SubSeq(wire.frame, MinFrame + 1, MinFrame + Len(WirePayload)) = WirePayload
            /\ FromBE32(SubSeq(wire.frame, L - 3, L)) = wire.call.numFDs)
  /\ (TypedFrameWithFDsRead =>
        /\ (op.name = "DecodePayload" /\ ~op.afterFDs /\ op.filter = wire.call.filter =>
              op.ret = 0 /\ decoded = wire.call.data)
        /\ (op.name = "DecodeNumFDs" /\ op.afterPayload => op.ret = 0 /\ nfds = wire.call.numFDs))

\* C13, amended: in a frame built in the order EncodeHeader, EncodeNumFDs,
\* payload encoder, the descriptor count comes right after the header and the
\* payload right after the count, up to the end of the frame; the decode order
\* DecodeLength, DecodeHeader, DecodeNumFDs, DecodePayload gives back the count
\* (as that many slots of -1) and then the payload value.
C13_CountBeforePayload ==
  /\ (FrameWithFDs =>
        LET L == Len(wire.frame)
        IN  /\ L = MinFrame + 4 + Len(WirePayload)
            /\ FromBE32(SubSeq(wire.frame, MinFrame + 1, MinFrame + 4)) = wire.call.numFDs
            /\ SubSeq(wire.frame, MinFrame + 5, L) = WirePayload)
  /\ (TypedFrameWithFDsRead =>
        /\ (op.name = "DecodeNumFDs" /\ ~op.afterPayload =>
              /\ op.ret = 0
              /\ nfds = wire.call.numFDs
              /\ fds = [i \in 1..nfds |-> -1]
              /\ bufferOffset = MinFrame + 4)
        /\ (op.name = "DecodePayload" /\ op.afterFDs /\ op.filter = wire.call.filter =>
              /\ op.ret = 0
              /\ decoded = wire.call.data
              /\ header = wire.hdr))

\* A frame that announced two descriptors before an array gave both back.
C13_Witness ==
  /\ TypedFrameWithFDsRead
  /\ phase = "dfds"
  /\ op.name = "DecodePayload"
  /\ op.afterFDs
  /\ op.ret = 0
  /\ wire.call.numFDs = 2
  /\ nfds = 2
  /\ Len(decoded) >= 2
  /\ decoded = wire.call.data

\* The descriptors in the message's slots.
InSlots == { fds[i] : i \in { j \in 1..nfds : fds[j] >= 0 } }

\* The operations that end the message's hold on its descriptors.
Releases == {"ClearFDs", "ClearPayload", "Clear", "Free"}

\* C14: a message owns its descriptors until handoff or disposal.  Over any
\* sequence of AddFD, DecodeNumFDs, handoffs, ClearFDs, ClearPayload,
\* Clear and Free: the descriptors the message holds open are exactly those in
\* its slots, each in one slot (none leaked, none closed early); it never
\* closes a descriptor it does not hold (none closed twice, none closed after
\* handoff), and a handed-off descriptor is in no slot; after ClearFDs,
\* ClearPayload, Clear or Free it holds none (nfds = donefds = 0); and the
\* callback Free calls sees every descriptor of the message still open.
C14_Ownership ==
  /\ [](/\ openFds = InSlots
        /\ Cardinality(InSlots) = Cardinality({ j \in 1..nfds : fds[j] >= 0 })
        /\ misclosed = {}
        /\ handed \cap InSlots = {}
        /\ Len(fds) = nfds
        /\ donefds <= nfds
        /\ (op.name \in Releases => nfds = 0 /\ donefds = 0 /\ openFds = {}))
  /\ [][/\ (op'.name \in Releases => handed' = handed /\ openFds' = openFds \ InSlots)
        /\ (op'.name = "Free" /\ cb # NULL =>
              /\ Len(cbCalls') = Len(cbCalls) + 1
              /\ cbCalls'[Len(cbCalls')].open = InSlots
              /\ cbCalls'[Len(cbCalls')].nfds = nfds)]_vars

\* A message with a callback was freed holding one descriptor it had and one
\* it had handed off: the callback saw the first open, and Free closed it and
\* not the other.
C14_Witness ==
  /\ op.name = "Free"
  /\ Len(cbCalls) = 1
  /\ cbCalls[1].nfds = 2
  /\ Cardinality(cbCalls[1].open) = 1
  /\ Cardinality(handed) = 1
  /\ openFds = {}
  /\ nfds = 0

\* Every descriptor open in the process through the message code.
AllOpen == openFds \cup handed \cup dupOut

\* C15: AddFD and DupFD are atomic on failure.  A failed AddFD leaves nfds,
\* donefds and every slot as they were and leaves no duplicate open (the one
\* it made, if any, is closed); a successful one adds exactly one slot, the
\* last, holding the new duplicate, and leaves the earlier slots alone.  DupFD
\* fails whenever slot >= nfds, never changes the message's slots, nfds or
\* donefds, and leaves no duplicate open other than the one it returns.
C15_AtomicOnFailure ==
  [][/\ (op'.name = "AddFD" =>
           /\ donefds' = donefds
           /\ handed' = handed
           /\ (op'.ret = -1 =>
                 /\ nfds' = nfds
                 /\ fds' = fds
                 /\ openFds' = openFds
                 /\ op'.created \subseteq op'.closed)
           /\ (op'.ret # -1 =>
                 /\ op'.ret = 0
                 /\ nfds' = nfds + 1
                 /\ Len(fds') = nfds'
                 /\ SubSeq(fds', 1, nfds) = fds
                 /\ fds'[nfds'] \notin AllOpen
                 /\ fds'[nfds'] >= 0
                 /\ openFds' = openFds \cup {fds'[nfds']}
                 /\ op'.created = {fds'[nfds']}
                 /\ op'.closed = {}))
     /\ (op'.name = "DupFD" =>
           /\ fds' = fds
           /\ nfds' = nfds
           /\ donefds' = donefds
           /\ openFds' = openFds
           /\ handed' = handed
           /\ (op'.slot >= nfds => op'.ret = -1)
           /\ (op'.ret = -1 => dupOut' = dupOut /\ op'.created \subseteq op'.closed)
           /\ (op'.ret # -1 =>
                 /\ op'.ret >= 0
                 /\ op'.ret \notin AllOpen
                 /\ dupOut' = dupOut \cup {op'.ret}
                 /\ op'.created = {op'.ret}
                 /\ op'.closed = {}))]_vars

\* AddFD failed after making its duplicate, on a message that already held a
\* descriptor and had handed one off: the duplicate was closed again.
C15_Witness ==
  /\ op.name = "AddFD"
  /\ op.ret = -1
  /\ op.created # {}
  /\ op.closed = op.created
  /\ nfds = 2
  /\ donefds = 1
  /\ Cardinality(openFds) = 1
  /\ op.created \cap AllOpen = {}

\* The word the descriptor-count decoder finds at bufferOffset.
CountWord == FromBE32(Window(buffer, bufferOffset, 4))

\* Four bytes are left between the cursors and all of them were written.
CountWordThere ==
  /\ bufferLength - bufferOffset >= 4
  /\ bufferOffset + 4 <= Len(buffer)
  /\ \A i \in 1..4 : buffer[bufferOffset + i] # Uninit

\* C16: the descriptor-count cap and slot allocation.  EncodeNumFDs fails
\* whenever nfds > FDS_MAX, and a failed call leaves the buffer and both
\* cursors as they were.  DecodeNumFDs fails whenever the count it reads is
\* above FDS_MAX, and then allocates nothing and leaves nfds alone; a
\* successful call on a message with nfds = 0 sets nfds to the count with
\* every slot -1, and on a message with nfds > 0 leaves nfds and the slots
\* alone.  Each successful call of either moves bufferOffset on by exactly 4.
C16_CountCap ==
  [][/\ (op'.name = "EncodeNumFDs" =>
           /\ op'.ret \in {0, -1}
           /\ (nfds > VIR_NET_MESSAGE_NUM_FDS_MAX => op'.ret = -1)
           /\ (op'.ret = -1 => UNCHANGED bufVars)
           /\ (op'.ret = 0 =>
                 /\ bufferOffset' = bufferOffset + 4
                 /\ FromBE32(Window(buffer', bufferOffset, 4)) = nfds))
     /\ (op'.name = "DecodeNumFDs" =>
           /\ op'.ret \in {0, -1}
           /\ (CountWordThere /\ UGreater(CountWord, VIR_NET_MESSAGE_NUM_FDS_MAX) =>
                 op'.ret = -1)
           /\ (op'.ret = -1 => nfds' = nfds /\ fds' = fds)
           /\ (op'.ret = 0 =>
                 /\ CountWordThere
                 /\ bufferOffset' = bufferOffset + 4
                 /\ (nfds = 0 => /\ nfds' = CountWord
                                 /\ fds' = [i \in 1..CountWord |-> -1])
                 /\ (nfds > 0 => nfds' = nfds /\ fds' = fds)))]_vars

\* The count was decoded on a message that already held descriptors: they
\* are still in their slots.
C16_Witness ==
  /\ op.name = "DecodeNumFDs"
  /\ op.ret = 0
  /\ nfds >= 1
  /\ fds[1] >= 0
  /\ bufferOffset = MinFrame + 4

\* C17: QueueServe on a non-empty queue returns the head, makes the head's
\* successor the new head, leaves the order and the links of the messages
\* that remain as they were, and leaves the returned message's next link
\* null; on an empty queue it returns null and the queue stays empty.  It
\* changes nothing of any message but that one link, and frees none.
C17_Serve ==
  [][op'.name = "QueueServe" =>
       /\ op'.ret = queue
       /\ (queue # NULL =>
             /\ queue' = next[queue]
             /\ next'[queue] = NULL
             /\ \A m \in Msgs \ {queue} : next'[m] = next[m]
             /\ ListFrom(next', queue') = Tail(ListFrom(next, queue)))
       /\ (queue = NULL => queue' = NULL /\ next' = next)
       /\ UNCHANGED <<msgVars, phase, cbCalls, openFds>>]_vars

\* The head of a full queue was served: its link is null and the others are
\* still queued behind the new head.
C17_Witness ==
  /\ op.name = "QueueServe"
  /\ op.ret # NULL
  /\ next[op.ret] = NULL
  /\ Len(pushed) = NumMsgs
  /\ Len(served) = 1
  /\ Len(Queued) = NumMsgs - 1
  /\ queue = pushed[2]

\* C18: the typed encoder called after a successful EncodeHeader returns,
\* whatever the marshaller does: each failed attempt doubles the payload
\* capacity bufferLength - VIR_NET_MESSAGE_LEN_MAX, bufferLength stays within
\* VIR_NET_MESSAGE_MAX + VIR_NET_MESSAGE_LEN_MAX, the call fails only when
\* the doubled capacity would pass VIR_NET_MESSAGE_MAX, and every
\* reallocation keeps bufferOffset and the bytes before it, the next attempt
\* writing from the same offset.
C18_EncodeTerminates ==
  /\ [][/\ (op'.name = "EncodePayloadGrow" =>
              /\ bufferLength' - VIR_NET_MESSAGE_LEN_MAX
                   = 2 * (bufferLength - VIR_NET_MESSAGE_LEN_MAX)
              /\ Len(buffer') = bufferLength'
              /\ bufferOffset' = bufferOffset
              /\ Window(buffer', 0, bufferOffset) = Window(buffer, 0, bufferOffset)
              /\ phase' = "encoding")
        /\ (phase = "encoding" /\ op'.name = "EncodePayload" /\ op'.ret = -1 =>
              /\ 2 * (bufferLength - VIR_NET_MESSAGE_LEN_MAX) > VIR_NET_MESSAGE_MAX
              /\ bufferOffset' = bufferOffset
              /\ bufferLength' = bufferLength
              /\ Window(buffer', 0, bufferOffset) = Window(buffer, 0, bufferOffset))]_vars
  /\ [](phase = "encoding" =>
          /\ bufferLength <= VIR_NET_MESSAGE_MAX + VIR_NET_MESSAGE_LEN_MAX
          /\ bufferLength - VIR_NET_MESSAGE_LEN_MAX >= VIR_NET_MESSAGE_INITIAL)
  /\ (phase = "encoding" ~>
        (op.name = "EncodePayload" /\ op.ret \in {0, -1} /\ phase \in {"encoded", "failed"}))

\* The marshaller that fails on every attempt: the encoder grew the buffer
\* behind a header and a descriptor count until the next doubling would pass
\* the cap, and returned -1.
C18_Witness ==
  /\ op.name = "EncodePayload"
  /\ op.ret = -1
  /\ call.filter = "fail"
  /\ call.withFDs
  /\ bufferOffset = MinFrame + 4
  /\ bufferLength - VIR_NET_MESSAGE_LEN_MAX >= 2 * VIR_NET_MESSAGE_INITIAL
  /\ 2 * (bufferLength - VIR_NET_MESSAGE_LEN_MAX) > VIR_NET_MESSAGE_MAX

\* C19: bufferLength never exceeds the number of bytes allocated for the
\* buffer, so the window from bufferOffset to bufferLength given to an XDR
\* stream lies inside the allocation.
C19_WithinAllocation ==
  phase # "freed" => bufferLength <= Len(buffer)


\* C20: EncodeHeader on a fresh record and on a record used before succeeds
\* and leaves bufferLength = VIR_NET_MESSAGE_INITIAL + VIR_NET_MESSAGE_LEN_MAX
\* (the allocated size), bufferOffset just after the header, and the length
\* word equal to that offset; EncodePayloadRaw called next with data = NULL
\* or len = 0 appends nothing and closes the minimum frame: bufferLength is
\* the length word plus the header, the length word says so, bufferOffset is
\* 0 and the header bytes are as EncodeHeader wrote them.
C20_MinimumFrame ==
  [][/\ (op'.name = "EncodeHeader" =>
           /\ op'.ret = 0
           /\ bufferLength' = VIR_NET_MESSAGE_INITIAL + VIR_NET_MESSAGE_LEN_MAX
           /\ Len(buffer') = bufferLength'
           /\ bufferOffset' = MinFrame
           /\ FromBE32(Window(buffer', 0, VIR_NET_MESSAGE_LEN_MAX)) = MinFrame
           /\ Window(buffer', VIR_NET_MESSAGE_LEN_MAX, HeaderLen)
                = WordsToBytes(HeaderWords(header)))
     /\ (/\ phase = "hdr"
         /\ op'.name = "EncodePayloadRaw"
         /\ (call'.filter = "raw_null" \/ call'.data = << >>)
         => /\ op'.ret = 0
            /\ bufferLength' = MinFrame
            /\ bufferOffset' = 0
            /\ FromBE32(Window(buffer', 0, VIR_NET_MESSAGE_LEN_MAX)) = MinFrame
            /\ Len(buffer') = Len(buffer)
            /\ Window(buffer', VIR_NET_MESSAGE_LEN_MAX, Len(buffer) - VIR_NET_MESSAGE_LEN_MAX)
                 = Window(buffer, VIR_NET_MESSAGE_LEN_MAX,
                          Len(buffer) - VIR_NET_MESSAGE_LEN_MAX))]_vars

\* The minimum frame was closed, with data = NULL, on a record used before:
\* the byte after the header is still there from the earlier frame.
C20_Witness ==
  /\ op.name = "EncodePayloadRaw"
  /\ op.ret = 0
  /\ call.filter = "raw_null"
  /\ bufferLength = MinFrame
  /\ bufferOffset = 0
  /\ Len(buffer) = VIR_NET_MESSAGE_INITIAL + VIR_NET_MESSAGE_LEN_MAX
  /\ buffer[MinFrame + 1] # Uninit
  /\ header \in Headers

====
